---- MODULE Spec2Model ----
(***************************************************************************)
(* Model of the batch optimization job pipeline of the image optimizer     *)
(* app (app/routes/app._index.tsx, app/routes/app.image-optimizer.tsx):    *)
(* the optimize_new / retry_single orchestrator, the cancel request, the   *)
(* revert and restore operations, the ledger (imageOptimization) and the   *)
(* job record (optimizationJob), against a platform that lists, deletes    *)
(* and creates product media.                                              *)
(*                                                                         *)
(* The orchestrator is one process whose position (pc) advances one        *)
(* awaited call at a time; cancel requests interleave with it freely.      *)
(* revert_all, revert_single and restore_missing are whole-handler actions *)
(* and are issued while no orchestrator run is in progress.                *)
(* Every call inside the try block that the pipeline makes on the ledger,  *)
(* the network, the transcoder and the platform may fail, and so may the   *)
(* calls outside it (the read of the job row, the catch block, the final   *)
(* update), which end the handler; the updates of the job row inside the   *)
(* try block, and the read of the record on which an image is skipped, are *)
(* taken to succeed.                                                       *)
(*                                                                         *)
(* SpecConc is the same handler seen from the database when several        *)
(* optimize requests, of one shop or of several, are handled at the same   *)
(* time: the job rows, the ledger rows and the reads and writes that each  *)
(* request makes on them, one awaited database call at a time, with the    *)
(* pipeline of an item (fetch .. create) taken as one step that succeeds   *)
(* or throws.                                                              *)
(***************************************************************************)
EXTENDS Integers, Sequences, FiniteSets, TLC

\* ---------------------------------------------------------------- bounds
NImages == 2        \* product images the platform holds initially
MaxRuns == 2        \* optimize_new / retry_single requests per behaviour
MaxReverts == 1     \* revert_all / revert_single requests per behaviour
MaxRestores == 1    \* restore_missing requests per behaviour
MaxCancels == 1     \* cancel requests per behaviour
MaxFaults == 1      \* calls per behaviour that answer with a failure
MaxWebp == 1        \* byte lengths the transcoder may return: 1..MaxWebp
MaxTemplateLen == 3 \* characters of a template
MaxValueChars == 3  \* characters of the values of a variable map, together
MaxTextLen == 5     \* characters of a text given to the slug chain
NRequests == 2      \* optimize requests that are handled concurrently
NShops == 2         \* shops (tenants) that issue them

\* ------------------------------------------------------------- constants
Null == <<>>        \* a null string / url / label
NullInt == -1       \* a null Int column
NoGid == 0          \* a null media id (platform ids start at 1)

VARIABLES
  media,        \* platform: sequence of product media, in listing order
  nextMediaId,  \* platform: id the next created media gets
  ledger,       \* db.imageOptimization: imageId -> record
  jobs,         \* db.optimizationJob: sequence, job id = index
  seoAuto,      \* db.seoSettings.autoApplyOnOptimize
  pc,           \* position of the orchestrator (optimize_new/retry_single)
  loc,          \* its local variables
  reqs,         \* requests so far: [runs, reverts, restores, cancels]
  faults,       \* failed calls so far
  event,        \* the call or response of the step just taken
  hist,         \* history kept for the properties only
  rows,         \* concurrent requests: db.imageOptimization, row id = index
  jobRows,      \* concurrent requests: db.optimizationJob, job id = index
  req,          \* concurrent requests: the handler of each request
  txt           \* template engine: the input and the result of one call

vars == <<media, nextMediaId, ledger, jobs, seoAuto, pc, loc,
          reqs, faults, event, hist, rows, jobRows, req, txt>>

\* the state of one call of the template engine
textVars == <<txt>>

\* the state of the requests that are handled concurrently
concVars == <<rows, jobRows, req>>

\* the state of the single orchestrator and of the platform
seqVars == <<media, nextMediaId, ledger, jobs, seoAuto, pc, loc, faults, hist>>

\* --------------------------------------------------------------- helpers
Range(s) == {s[i] : i \in 1..Len(s)}

Put(f, k, v) == [x \in (DOMAIN f) \cup {k} |-> IF x = k THEN v ELSE f[x]]

\* a url is <<kind, a, b, n>>: n is the byte length of the resource behind it
CdnUrl(id, bytes) == <<"cdn", id, 0, bytes>>

StagedUrl(kind, job, id, bytes) == <<kind, job, id, bytes>>

BytesAt(url) == url[4]

ProductOf(id) == id          \* initial media i belongs to product i

OrigBytes(id) == id + 2      \* byte length of initial media i

InitMedia ==
  [i \in 1..NImages |->
     [id |-> i, product |-> ProductOf(i), src |-> <<"orig", i>>,
      alt |-> i, bytes |-> OrigBytes(i)]]

RECURSIVE SumOver(_, _)
SumOver(S, f) ==
  IF S = {} THEN 0
  ELSE LET x == CHOOSE y \in S : TRUE IN f[x] + SumOver(S \ {x}, f)

\* products(first: 250) { media(first: 50) } : product order, then media order
RECURSIVE Listing(_, _)
Listing(ms, p) ==
  IF p > NImages THEN <<>>
  ELSE LET own == SelectSeq(ms, LAMBDA m : m.product = p)
       IN [i \in 1..Len(own) |-> [m |-> own[i], i |-> i]] \o Listing(ms, p + 1)

\* productDeleteMedia: the media leaves the product
RemoveMedia(ms, id) == SelectSeq(ms, LAMBDA m : m.id # id)

HasMedia(ms, id) == \E m \in Range(ms) : m.id = id

\* productCreateMedia: a new media, with a new id, from originalSource
AddMedia(ms, id, product, source, alt, bytes) ==
  Append(ms, [id |-> id, product |-> product, src |-> source, alt |-> alt,
              bytes |-> bytes])

StatusOf(l, id) == IF id \in DOMAIN l THEN l[id].status ELSE "pending"

TemplateAlt == 0    \* alt text rendered from the template

\* --------------------------------------------------------------- Init
NoJob == 0

InitLoc ==
  [actionType |-> "optimize_new", target |-> NoGid, items |-> <<>>, idx |-> 1,
   job |-> NoJob, processedCount |-> 0, errorCount |-> 0, skippedCount |-> 0,
   totalSaved |-> 0, originalSize |-> NullInt, backupUrl |-> Null,
   webpSize |-> NullInt, webpResourceUrl |-> Null,
   newMediaId |-> NoGid, newMediaUrl |-> Null,
   backupDurable |-> FALSE, transcoded |-> FALSE]

\* a request that has not arrived yet
NoRequest ==
  [pc |-> "new", shop |-> 0, actionType |-> "optimize_new", items |-> <<>>,
   idx |-> 1, job |-> NoJob, intent |-> "processing", found |-> FALSE]

InitHist ==
  [counted |-> {},
   cancelK |-> -1, cancelMid |-> FALSE, runCalls |-> 0,
   prevCompleted |-> -1, expectSkipped |-> -1, backupAtRevert |-> <<>>]

\* no call of the template engine
NoText == [phase |-> "none"]

\* the state before the first request, but for the settings and the call of
\* the template engine
InitState ==
  /\ media = InitMedia
  /\ nextMediaId = NImages + 1
  /\ ledger = <<>>
  /\ jobs = <<>>
  /\ pc = "idle"
  /\ loc = InitLoc
  /\ reqs = [runs |-> 0, reverts |-> 0, restores |-> 0, cancels |-> 0]
  /\ faults = 0
  /\ event = [op |-> "init"]
  /\ hist = InitHist
  /\ rows = <<>>
  /\ jobRows = <<>>
  /\ req = [w \in 1..NRequests |-> NoRequest]

Init ==
  /\ InitState
  /\ seoAuto \in BOOLEAN
  /\ txt = NoText

\* ------------------------------------------------ job record (db.optimizationJob)
NewJob(total) ==
  [status |-> "running", cancelled |-> FALSE, totalImages |-> total,
   processedCount |-> 0, errorCount |-> 0, skippedCount |-> 0,
   totalSaved |-> 0, currentImage |-> Null]

\* ---------------------------------------- ledger record (db.imageOptimization)
NewRecord(m, status) ==
  [productId |-> m.product, imageId |-> m.id, originalUrl |-> CdnUrl(m.id, m.bytes),
   originalGid |-> m.id, originalAlt |-> m.alt, webpUrl |-> Null,
   webpGid |-> NoGid, backupUrl |-> Null, fileSize |-> NullInt,
   webpFileSize |-> NullInt, status |-> status, altTextUpdated |-> FALSE]

\* upsert({create: {..., status: "processing"}, update: {status, originalAlt}})
UpsertProcessing(l, m) ==
  IF m.id \in DOMAIN l
  THEN [l EXCEPT ![m.id].status = "processing", ![m.id].originalAlt = m.alt]
  ELSE Put(l, m.id, NewRecord(m, "processing"))

\* mutant: the upsert of the catch block creates a missing record only
UpsertFailedCreateOnly(l, m) ==
  IF m.id \in DOMAIN l THEN l ELSE Put(l, m.id, NewRecord(m, "failed"))

\* upsert({create: {..., status: "failed"}, update: {status: "failed"}})
UpsertFailed(l, m) ==
  IF m.id \in DOMAIN l
  THEN [l EXCEPT ![m.id].status = "failed"]
  ELSE Put(l, m.id, NewRecord(m, "failed"))

\* mutant: webpUrl without the fallback to the staged resource url
UpdateCompletedNoFallback(l, id, lc, auto) ==
  [l EXCEPT ![id].webpUrl = lc.newMediaUrl,
            ![id].webpGid = lc.newMediaId,
            ![id].backupUrl = lc.backupUrl,
            ![id].fileSize = lc.originalSize,
            ![id].webpFileSize = lc.webpSize,
            ![id].status = "completed",
            ![id].altTextUpdated = auto]

\* update({data: {webpUrl, webpGid, backupUrl, fileSize, webpFileSize,
\*                status: "completed", altTextUpdated}})
UpdateCompleted(l, id, lc, auto) ==
  [l EXCEPT ![id].webpUrl =
               IF lc.newMediaUrl # Null THEN lc.newMediaUrl
               ELSE lc.webpResourceUrl,
            ![id].webpGid = lc.newMediaId,
            ![id].backupUrl = lc.backupUrl,
            ![id].fileSize = lc.originalSize,
            ![id].webpFileSize = lc.webpSize,
            ![id].status = "completed",
            ![id].altTextUpdated = auto]

\* ------------------------------------------------ optimize_new / retry_single
Item == loc.items[loc.idx]

Cur == Item.m

\* mutant: the loop takes every listed image, whatever the target
CandidatesAll(ms, target) == Listing(ms, 1)

\* if (targetImageId && media.id !== targetImageId) continue;
Candidates(ms, target) ==
  SelectSeq(Listing(ms, 1), LAMBDA it : target = NoGid \/ it.m.id = target)

\* mutant: the skip test takes every settled record, failed ones too
SkipTestSettled(actionType, l, id) ==
  actionType = "optimize_new" /\ StatusOf(l, id) \in {"completed", "failed"}

\* actionType === "optimize_new" && existing && existing.status === "completed"
SkipTest(actionType, l, id) ==
  actionType = "optimize_new" /\ StatusOf(l, id) = "completed"

\* mutant: every listed candidate is counted
ImagesToProcessAll(items, actionType, l) == Len(items)

\* imagesToProcess: candidates without a completed record (bulk mode)
ImagesToProcess(items, actionType, l) ==
  Cardinality({k \in 1..Len(items) : ~SkipTest(actionType, l, items[k].m.id)})

CompletedCount(l) == Cardinality({id \in DOMAIN l : l[id].status = "completed"})

\* position after the current item: the next item's check, or the final update
AfterItem(lc) == IF lc.idx + 1 > Len(lc.items) THEN "finalize" ELSE "check"

NextItem(lc) ==
  [lc EXCEPT !.idx = lc.idx + 1, !.originalSize = NullInt, !.backupUrl = Null,
             !.webpSize = NullInt, !.webpResourceUrl = Null,
             !.newMediaId = NoGid, !.newMediaUrl = Null,
             !.backupDurable = FALSE, !.transcoded = FALSE]

\* no run of the orchestrator is in progress
Quiet == pc \in {"idle", "aborted"}

Start(actionType, target) ==
  /\ Quiet
  /\ reqs.runs < MaxRuns
  /\ LET items == Candidates(media, target)
         job == Len(jobs) + 1
     IN /\ jobs' = Append(jobs, NewJob(ImagesToProcess(items, actionType, ledger)))
        /\ loc' = [InitLoc EXCEPT !.actionType = actionType, !.target = target,
                                  !.items = items, !.job = job]
        /\ pc' = IF items = <<>> THEN "finalize" ELSE "check"
        /\ event' = [op |-> "start", actionType |-> actionType, job |-> job]
        /\ hist' = [hist EXCEPT
             !.counted = {}, !.cancelK = -1, !.cancelMid = FALSE,
             !.runCalls = 0,
             !.expectSkipped =
                IF actionType = "optimize_new" THEN hist.prevCompleted ELSE -1]
  /\ reqs' = [reqs EXCEPT !.runs = reqs.runs + 1]
  /\ UNCHANGED <<media, nextMediaId, ledger, seoAuto, faults>>
  /\ UNCHANGED <<concVars, textVars>>

OptimizeNew == Start("optimize_new", NoGid)

RetrySingle ==
  \E target \in {m.id : m \in Range(media)} \cup DOMAIN ledger :
     Start("retry_single", target)

\* a call answers with a failure: one more of the MaxFaults
Fault ==
  /\ faults < MaxFaults
  /\ faults' = faults + 1

\* n calls answer with a failure
Faults(n) ==
  /\ faults + n <= MaxFaults
  /\ faults' = faults + n

\* a call outside the try blocks throws: the handler rejects, the job row stays
\* as the last write left it
Abort(jb, step, n) ==
  /\ Faults(n)
  /\ jobs' = jb
  /\ pc' = "aborted"
  /\ event' = [op |-> "abort", step |-> step, job |-> loc.job]
  /\ UNCHANGED loc

\* mutant: the catch block counts the image as processed
CountErrorAsProcessed(lc) == [lc EXCEPT !.processedCount = lc.processedCount + 1]

\* errorCount++
CountError(lc) == [lc EXCEPT !.errorCount = lc.errorCount + 1]

\* mutant: the catch block counts the error and leaves the record as it is
CatchKeepsRecord(lc, jb, step) ==
  /\ Fault
  /\ ledger' = ledger
  /\ jobs' = [jb EXCEPT ![lc.job].errorCount = CountError(lc).errorCount]
  /\ loc' = NextItem(CountError(lc))
  /\ pc' = AfterItem(lc)
  /\ event' = [op |-> "catch", step |-> step, id |-> Cur.id, job |-> lc.job]

\* the catch block of one item: errorCount++, ledger -> failed, job update;
\* when its upsert or its job update throws, the handler rejects
Catch(lc, jb, step) ==
  \/ /\ Fault
     /\ ledger' = UpsertFailed(ledger, Cur)
     /\ jobs' = [jb EXCEPT ![lc.job].errorCount = CountError(lc).errorCount]
     /\ loc' = NextItem(CountError(lc))
     /\ pc' = AfterItem(lc)
     /\ event' = [op |-> "catch", step |-> step, id |-> Cur.id, job |-> lc.job]
  \/ /\ Abort(jb, "catch", 2)
     /\ \E upserted \in BOOLEAN :
          ledger' = IF upserted THEN UpsertFailed(ledger, Cur) ELSE ledger

\* mutant: the check reads the job object that create returned
CancelObservedStale(jb, j) == FALSE

\* const currentJob = findUnique({where: {id: job.id}}); currentJob?.cancelled
CancelObserved(jb, j) == jb[j].cancelled

\* the cancellation check, the skip test and the upsert to processing; the
\* read of the job row and the update of the cancelled branch are outside the
\* try block; a failure of the upsert to processing (or of the read of the
\* record before it) goes to the catch block
BeginItem ==
  /\ pc = "check"
  /\ \/ /\ Abort(jobs, "check", 1)
        /\ UNCHANGED <<ledger, hist>>
     \/ IF CancelObserved(jobs, loc.job)
        THEN /\ jobs' = [jobs EXCEPT ![loc.job].status = "cancelled",
                                     ![loc.job].processedCount = loc.processedCount,
                                     ![loc.job].errorCount = loc.errorCount,
                                     ![loc.job].skippedCount = loc.skippedCount,
                                     ![loc.job].totalSaved = loc.totalSaved,
                                     ![loc.job].currentImage = Null]
             /\ pc' = "idle"
             /\ event' = [op |-> "return", actionType |-> "cancelled", job |-> loc.job]
             /\ hist' = [hist EXCEPT !.prevCompleted = -1]
             /\ UNCHANGED <<ledger, loc, faults>>
        ELSE IF SkipTest(loc.actionType, ledger, Cur.id)
        THEN /\ jobs' = [jobs EXCEPT ![loc.job].skippedCount = loc.skippedCount + 1]
             /\ loc' = NextItem([loc EXCEPT !.skippedCount = loc.skippedCount + 1])
             /\ pc' = AfterItem(loc)
             /\ event' = [op |-> "skip", id |-> Cur.id, job |-> loc.job]
             /\ UNCHANGED <<ledger, hist, faults>>
        ELSE LET labelled ==
                   [jobs EXCEPT ![loc.job].currentImage = <<Cur.product, Item.i>>,
                                ![loc.job].processedCount = loc.processedCount,
                                ![loc.job].errorCount = loc.errorCount,
                                ![loc.job].skippedCount = loc.skippedCount,
                                ![loc.job].totalSaved = loc.totalSaved]
             IN /\ UNCHANGED hist
                /\ \/ /\ jobs' = labelled
                      /\ ledger' = UpsertProcessing(ledger, Cur)
                      /\ pc' = "fetch"
                      /\ event' = [op |-> "processing", id |-> Cur.id, job |-> loc.job]
                      /\ UNCHANGED <<loc, faults>>
                   \/ Catch(loc, labelled, "processing")
  /\ UNCHANGED <<media, nextMediaId, seoAuto, reqs>>
  /\ UNCHANGED <<concVars, textVars>>

\* Step 1: fetch(media.image.url), imageBuffer.length
Fetch ==
  /\ pc = "fetch"
  /\ \/ /\ loc' = [loc EXCEPT !.originalSize = BytesAt(CdnUrl(Cur.id, Cur.bytes))]
        /\ pc' = "backup"
        /\ event' = [op |-> "fetch", id |-> Cur.id, job |-> loc.job]
        /\ UNCHANGED <<ledger, jobs, faults>>
     \/ Catch(loc, jobs, "fetch")
  /\ UNCHANGED <<media, nextMediaId, seoAuto, reqs, hist>>
  /\ UNCHANGED <<concVars, textVars>>

BackupOutcomes == {"ok", "no_target", "upload_failed", "file_errors"}

\* uploadToShopifyFiles throws when no staged target is returned or the byte
\* upload is not ok; the result of fileCreate is not inspected
BackupThrows(outcome) == outcome \in {"no_target", "upload_failed"}

\* Step 2: uploadToShopifyFiles(admin, imageBuffer, backupFilename, mime);
\* the staged resource is made permanent by fileCreate (outcome "ok") or
\* fileCreate answers userErrors (outcome "file_errors")
Backup ==
  /\ pc = "backup"
  /\ \E outcome \in BackupOutcomes :
       IF BackupThrows(outcome)
       THEN Catch(loc, jobs, "backup")
       ELSE /\ loc' = [loc EXCEPT
                 !.backupUrl = StagedUrl("backup", loc.job, Cur.id, loc.originalSize),
                 !.backupDurable = (outcome = "ok")]
            /\ IF outcome = "ok" THEN UNCHANGED faults ELSE Fault
            /\ pc' = "transcode"
            /\ event' = [op |-> "backup", id |-> Cur.id, job |-> loc.job]
            /\ UNCHANGED <<ledger, jobs>>
  /\ UNCHANGED <<media, nextMediaId, seoAuto, reqs, hist>>
  /\ UNCHANGED <<concVars, textVars>>

\* Step 3: sharp(imageBuffer).webp({quality: 85}).toBuffer(), webpBuffer.length
Transcode ==
  /\ pc = "transcode"
  /\ \/ \E size \in 1..MaxWebp :
          /\ loc' = [loc EXCEPT !.webpSize = size, !.transcoded = TRUE]
          /\ pc' = "uploadWebp"
          /\ event' = [op |-> "transcode", id |-> Cur.id, job |-> loc.job]
          /\ UNCHANGED <<ledger, jobs, faults>>
     \/ Catch(loc, jobs, "transcode")
  /\ UNCHANGED <<media, nextMediaId, seoAuto, reqs, hist>>
  /\ UNCHANGED <<concVars, textVars>>

\* Step 4: uploadWebpForProduct(admin, webpBuffer, fileName); it throws when
\* no staged target is returned or the byte upload is not ok
UploadWebp ==
  /\ pc = "uploadWebp"
  /\ \/ /\ loc' = [loc EXCEPT
             !.webpResourceUrl = StagedUrl("webp", loc.job, Cur.id, loc.webpSize)]
        /\ pc' = "delete"
        /\ event' = [op |-> "uploadWebp", id |-> Cur.id, job |-> loc.job]
        /\ UNCHANGED <<ledger, jobs, faults>>
     \/ Catch(loc, jobs, "uploadWebp")
  /\ UNCHANGED <<media, nextMediaId, seoAuto, reqs, hist>>
  /\ UNCHANGED <<concVars, textVars>>

\* what productDeleteMedia may answer: with "ok" the media leaves the product;
\* with "user_errors" mediaUserErrors is not empty and the media stays; with
\* "throw" the call itself is rejected and the media stays
DeleteOutcomes == {"ok", "user_errors", "throw"}

AfterDelete(ms, id, outcome) == IF outcome = "ok" THEN RemoveMedia(ms, id) ELSE ms

\* mutant: mediaUserErrors of the delete are thrown
DeleteThrowsOnErrors(outcome) == outcome # "ok"

\* if (mediaUserErrors?.length > 0) console.error("Delete errors:", ...): only
\* a rejected call leaves the try block
DeleteThrows(outcome) == outcome = "throw"

\* Step 5: productDeleteMedia(mediaIds: [media.id]); user errors are logged
DeleteOriginal ==
  /\ pc = "delete"
  /\ \E outcome \in DeleteOutcomes :
       IF DeleteThrows(outcome)
       THEN /\ Catch(loc, jobs, IF outcome = "throw" THEN "delete" ELSE "delete_errors")
            /\ UNCHANGED media
       ELSE /\ media' = AfterDelete(media, Cur.id, outcome)
            /\ IF outcome = "ok" THEN UNCHANGED faults ELSE Fault
            /\ pc' = "create"
            /\ event' = [op |-> "delete", by |-> "optimize", id |-> Cur.id,
                         job |-> loc.job, outcome |-> outcome]
            /\ UNCHANGED <<ledger, jobs, loc>>
  /\ hist' = [hist EXCEPT !.runCalls = hist.runCalls + 1]
  /\ UNCHANGED <<nextMediaId, seoAuto, reqs>>
  /\ UNCHANGED <<concVars, textVars>>

\* what productCreateMedia may answer: the new media with its served url,
\* the new media whose image is not ready yet, or mediaUserErrors (a rejected
\* call has the effect of "user_errors": both end in the catch block)
CreateOutcomes == {"ok", "ok_no_image", "user_errors"}

\* let altText = media.image.altText || product.title || ""  (or the template)
AltTextFor(m, auto) == IF auto THEN TemplateAlt ELSE m.alt

\* mutant: mediaUserErrors of the create are not inspected
CreateThrowsNever(outcome) == FALSE

\* if (mediaUserErrors?.length > 0) throw new Error(...)
CreateThrows(outcome) == outcome = "user_errors"

\* Step 6: productCreateMedia(originalSource: webpResourceUrl, alt: altText);
\* newMedia = media?.[0] is undefined when the mutation created nothing
CreateWebp ==
  /\ pc = "create"
  /\ \E outcome \in CreateOutcomes :
       IF CreateThrows(outcome)
       THEN /\ Catch(loc, jobs, "create")
            /\ UNCHANGED <<media, nextMediaId>>
       ELSE /\ media' = IF outcome = "user_errors" THEN media
                        ELSE AddMedia(media, nextMediaId, Cur.product,
                                      loc.webpResourceUrl, AltTextFor(Cur, seoAuto),
                                      BytesAt(loc.webpResourceUrl))
            /\ nextMediaId' = IF outcome = "user_errors" THEN nextMediaId
                              ELSE nextMediaId + 1
            /\ loc' = [loc EXCEPT
                 !.newMediaId = IF outcome = "user_errors" THEN NoGid ELSE nextMediaId,
                 !.newMediaUrl = IF outcome = "ok"
                                 THEN CdnUrl(nextMediaId, BytesAt(loc.webpResourceUrl))
                                 ELSE Null]
            /\ IF outcome = "ok" THEN UNCHANGED faults ELSE Fault
            /\ pc' = "ledger"
            /\ event' = [op |-> "create", by |-> "optimize", id |-> Cur.id,
                         job |-> loc.job, outcome |-> outcome]
            /\ UNCHANGED <<ledger, jobs>>
  /\ hist' = [hist EXCEPT !.runCalls = hist.runCalls + 1]
  /\ UNCHANGED <<seoAuto, reqs>>
  /\ UNCHANGED <<concVars, textVars>>

\* const savings = originalSize - webpSize; totalSaved += savings
AddSavings(lc) ==
  [lc EXCEPT !.totalSaved = lc.totalSaved + (lc.originalSize - lc.webpSize)]

\* ledger -> completed, processedCount++, job progress update
LedgerCompleted ==
  /\ pc = "ledger"
  /\ LET saved == AddSavings(loc)
     IN \/ /\ ledger' = UpdateCompleted(ledger, Cur.id, saved, seoAuto)
           /\ jobs' = [jobs EXCEPT
                ![loc.job].processedCount = saved.processedCount + 1,
                ![loc.job].errorCount = saved.errorCount,
                ![loc.job].totalSaved = saved.totalSaved]
           /\ loc' = NextItem([saved EXCEPT !.processedCount = saved.processedCount + 1])
           /\ pc' = AfterItem(loc)
           /\ event' = [op |-> "completed", id |-> Cur.id, job |-> loc.job]
           /\ hist' = [hist EXCEPT !.counted = hist.counted \cup {Cur.id}]
           /\ UNCHANGED faults
        \/ /\ Catch(saved, jobs, "ledger")
           /\ UNCHANGED hist
  /\ UNCHANGED <<media, nextMediaId, seoAuto, reqs>>
  /\ UNCHANGED <<concVars, textVars>>

\* after the loop: status = "completed" with the final counters; the update
\* is outside the try block
Finalize ==
  /\ pc = "finalize"
  /\ \/ /\ jobs' = [jobs EXCEPT ![loc.job].status = "completed",
                                ![loc.job].processedCount = loc.processedCount,
                                ![loc.job].errorCount = loc.errorCount,
                                ![loc.job].skippedCount = loc.skippedCount,
                                ![loc.job].totalSaved = loc.totalSaved,
                                ![loc.job].currentImage = Null]
        /\ pc' = "idle"
        /\ event' = [op |-> "return", actionType |-> loc.actionType, job |-> loc.job]
        /\ hist' = [hist EXCEPT !.prevCompleted =
             IF loc.actionType = "optimize_new" THEN CompletedCount(ledger) ELSE -1]
        /\ UNCHANGED <<loc, faults>>
     \/ /\ Abort(jobs, "finalize", 1)
        /\ hist' = [hist EXCEPT !.prevCompleted = -1]
  /\ UNCHANGED <<media, nextMediaId, ledger, seoAuto, reqs>>
  /\ UNCHANGED <<concVars, textVars>>

\* ---------------------------------------------------------------- cancel
\* findFirst({where: {shop, status: "running"}, orderBy: {createdAt: "desc"}})
RunningJob(jb) ==
  LET running == {j \in 1..Len(jb) : jb[j].status = "running"}
  IN IF running = {} THEN NoJob ELSE CHOOSE j \in running : \A k \in running : k <= j

\* mutant: the cancel request writes the row with its counters reset
SetCancelledResets(jb, j) ==
  IF j = NoJob THEN jb
  ELSE [jb EXCEPT ![j].cancelled = TRUE, ![j].status = "cancelled",
                  ![j].processedCount = 0, ![j].errorCount = 0,
                  ![j].skippedCount = 0]

\* update({where: {id}, data: {cancelled: true, status: "cancelled"}})
SetCancelled(jb, j) ==
  IF j = NoJob THEN jb
  ELSE [jb EXCEPT ![j].cancelled = TRUE, ![j].status = "cancelled"]

\* jobId is the form field, NoJob when the form has none
Cancel(jobId) ==
  /\ reqs.cancels < MaxCancels
  /\ LET j == IF jobId # NoJob THEN jobId ELSE RunningJob(jobs)
     IN /\ jobs' = SetCancelled(jobs, j)
        /\ event' = [op |-> "cancel", job |-> j]
        /\ hist' = IF j = loc.job /\ ~Quiet /\ hist.cancelK = -1 /\ ~hist.cancelMid
                   THEN IF pc \in {"check", "finalize"}
                        THEN [hist EXCEPT !.cancelK = loc.idx - 1]
                        ELSE [hist EXCEPT !.cancelMid = TRUE]
                   ELSE hist
  /\ reqs' = [reqs EXCEPT !.cancels = reqs.cancels + 1]
  /\ UNCHANGED <<media, nextMediaId, ledger, seoAuto, pc, loc, faults>>
  /\ UNCHANGED <<concVars, textVars>>

CancelRequest == \E jobId \in 0..Len(jobs) : Cancel(jobId)

\* ------------------------------------------------- revert / restore_missing
Min(S) == CHOOSE x \in S : \A y \in S : x <= y

\* mutant: the media is re-created from the url the platform served
RestoreSourceOriginal(rec) == rec.originalUrl

\* const restoreSource = opt.backupUrl || opt.originalUrl
RestoreSource(rec) == IF rec.backupUrl # Null THEN rec.backupUrl ELSE rec.originalUrl

\* update({where: {id}, data: {status: "reverted", altTextUpdated: false}})
MarkReverted(l, id) ==
  [l EXCEPT ![id].status = "reverted", ![id].altTextUpdated = FALSE]

\* mutant: restore_missing resets the record to pending
MarkRestoredPending(l, id) == [l EXCEPT ![id].status = "pending"]

\* update({where: {id}, data: {status: "restored"}})
MarkRestored(l, id) == [l EXCEPT ![id].status = "restored"]

\* what the re-create of one record may end in: the media is created and the
\* record updated; productCreateMedia answers mediaUserErrors (or is
\* rejected); the media is created and the update of the record throws
RecreateOutcomes == {"ok", "user_errors", "update_throws"}

\* mutant: the revert deletes the media that the record was made for
RevertTargetOriginal(rec) == rec.originalGid

\* productDeleteMedia(mediaIds: [opt.webpGid])
RevertTarget(rec) == rec.webpGid

\* the body of the try block for one record: delete the WebP media when the
\* record has a webpGid, re-create the media from restoreSource, mark the
\* record; st carries the platform, the ledger and the counters of the handler
RevertOne(st, id, del, cre) ==
  LET rec == st.ledger[id]
      deleted == IF rec.webpGid # NoGid
                 THEN AfterDelete(st.media, RevertTarget(rec), del) ELSE st.media
      calls == st.calls + (IF rec.webpGid # NoGid THEN 2 ELSE 1)
      created == AddMedia(deleted, st.next, rec.productId, RestoreSource(rec),
                          rec.originalAlt, BytesAt(RestoreSource(rec)))
  IN IF rec.webpGid # NoGid /\ del = "throw"
     THEN [st EXCEPT !.errors = st.errors + 1, !.calls = st.calls + 1]
     ELSE IF cre = "ok"
     THEN [st EXCEPT
            !.media = created,
            !.next = st.next + 1,
            !.ledger = MarkReverted(st.ledger, id),
            !.done = st.done + 1,
            !.calls = calls]
     ELSE IF cre = "update_throws"
     THEN [st EXCEPT !.media = created, !.next = st.next + 1,
                     !.errors = st.errors + 1, !.calls = calls]
     ELSE [st EXCEPT !.media = deleted, !.errors = st.errors + 1, !.calls = calls]

\* restore_missing: re-create the media from restoreSource, mark the record
RestoreOne(st, id, cre) ==
  LET rec == st.ledger[id]
  IN IF cre = "ok"
     THEN [st EXCEPT
            !.media = AddMedia(st.media, st.next, rec.productId, RestoreSource(rec),
                               rec.originalAlt, BytesAt(RestoreSource(rec))),
            !.next = st.next + 1,
            !.ledger = MarkRestored(st.ledger, id),
            !.done = st.done + 1,
            !.calls = st.calls + 1]
     ELSE IF cre = "update_throws"
     THEN [st EXCEPT
            !.media = AddMedia(st.media, st.next, rec.productId, RestoreSource(rec),
                               rec.originalAlt, BytesAt(RestoreSource(rec))),
            !.next = st.next + 1,
            !.errors = st.errors + 1,
            !.calls = st.calls + 1]
     ELSE [st EXCEPT !.errors = st.errors + 1, !.calls = st.calls + 1]

\* mutant: the first failure ends the loop
RECURSIVE RevertLoopBreaks(_, _, _, _)
RevertLoopBreaks(st, ids, del, cre) ==
  IF ids = {} THEN st
  ELSE LET id == Min(ids)
           after == RevertOne(st, id, del[id], cre[id])
       IN IF after.errors > st.errors THEN after
          ELSE RevertLoopBreaks(after, ids \ {id}, del, cre)

\* for (const opt of optimizations) { try { ... } catch { errorCount++ } }
RECURSIVE RevertLoop(_, _, _, _)
RevertLoop(st, ids, del, cre) ==
  IF ids = {} THEN st
  ELSE LET id == Min(ids)
       IN RevertLoop(RevertOne(st, id, del[id], cre[id]), ids \ {id}, del, cre)

\* mutant: the first failure ends the loop of restore_missing
RECURSIVE RestoreLoopBreaks(_, _, _)
RestoreLoopBreaks(st, ids, cre) ==
  IF ids = {} THEN st
  ELSE LET id == Min(ids)
           after == RestoreOne(st, id, cre[id])
       IN IF after.errors > st.errors THEN after
          ELSE RestoreLoopBreaks(after, ids \ {id}, cre)

\* for (const opt of revertedRecords) { try { ... } catch { errorCount++ } }
RECURSIVE RestoreLoop(_, _, _)
RestoreLoop(st, ids, cre) ==
  IF ids = {} THEN st
  ELSE LET id == Min(ids)
       IN RestoreLoop(RestoreOne(st, id, cre[id]), ids \ {id}, cre)

HandlerState ==
  [media |-> media, next |-> nextMediaId, ledger |-> ledger,
   done |-> 0, errors |-> 0, calls |-> 0]

WithStatus(l, status) == {id \in DOMAIN l : l[id].status = status}

Commit(st) ==
  /\ media' = st.media
  /\ nextMediaId' = st.next
  /\ ledger' = st.ledger

\* the number of calls of a handler that answered with a failure
Failures(f) == Cardinality({x \in DOMAIN f : f[x] # "ok"})

NoteReverts(h, before, after) ==
  [h EXCEPT !.prevCompleted = -1,
            !.backupAtRevert =
               [id \in DOMAIN after |->
                  IF before[id].status # "reverted" /\ after[id].status = "reverted"
                  THEN before[id].backupUrl
                  ELSE IF id \in DOMAIN h.backupAtRevert THEN h.backupAtRevert[id]
                  ELSE Null]]

\* findMany({where: {shop, status: "completed"}}) and the loop over it
RevertAll ==
  /\ Quiet
  /\ reqs.reverts < MaxReverts
  /\ LET ids == WithStatus(ledger, "completed")
     IN \E del \in [ids -> DeleteOutcomes], cre \in [ids -> RecreateOutcomes] :
          LET st == RevertLoop(HandlerState, ids, del, cre)
          IN /\ Faults(Failures(del) + Failures(cre))
             /\ Commit(st)
             /\ event' = [op |-> "revert_all", ids |-> ids, del |-> del, cre |-> cre,
                          success |-> TRUE, revertedCount |-> st.done,
                          errorCount |-> st.errors, calls |-> st.calls]
             /\ hist' = NoteReverts(hist, ledger, st.ledger)
  /\ reqs' = [reqs EXCEPT !.reverts = reqs.reverts + 1]
  /\ UNCHANGED <<jobs, seoAuto, pc, loc>>
  /\ UNCHANGED <<concVars, textVars>>

\* mutant: revert_single tests only that the record exists
RevertGuardExists(l, id) == id \in DOMAIN l

\* if (!opt || opt.status !== "completed") return json({success: false, ...})
RevertGuard(l, id) == id \in DOMAIN l /\ l[id].status = "completed"

\* optimizationId is the form field; it may name no record
RevertSingle(optimizationId) ==
  /\ Quiet
  /\ reqs.reverts < MaxReverts
  /\ IF ~RevertGuard(ledger, optimizationId)
     THEN /\ event' = [op |-> "revert_single", id |-> optimizationId,
                       success |-> FALSE, calls |-> 0]
          /\ UNCHANGED <<media, nextMediaId, ledger, hist, faults>>
     ELSE \E del \in DeleteOutcomes, cre \in RecreateOutcomes :
            LET st == RevertOne(HandlerState, optimizationId, del, cre)
            IN /\ Faults((IF del = "ok" THEN 0 ELSE 1) + (IF cre = "ok" THEN 0 ELSE 1))
               /\ Commit(st)
               /\ event' = [op |-> "revert_single", id |-> optimizationId,
                            success |-> (st.done = 1), calls |-> st.calls]
               /\ hist' = NoteReverts(hist, ledger, st.ledger)
  /\ reqs' = [reqs EXCEPT !.reverts = reqs.reverts + 1]
  /\ UNCHANGED <<jobs, seoAuto, pc, loc>>
  /\ UNCHANGED <<concVars, textVars>>

RevertSingleRequest ==
  \E optimizationId \in DOMAIN ledger \cup {NoGid} : RevertSingle(optimizationId)

\* findMany({where: {shop, status: "reverted"}}) and the loop over it
RestoreMissing ==
  /\ Quiet
  /\ reqs.restores < MaxRestores
  /\ LET ids == WithStatus(ledger, "reverted")
     IN \E cre \in [ids -> RecreateOutcomes] :
          LET st == RestoreLoop(HandlerState, ids, cre)
          IN /\ Faults(Failures(cre))
             /\ Commit(st)
             /\ event' = [op |-> "restore_missing", ids |-> ids, cre |-> cre,
                          success |-> TRUE, restoredCount |-> st.done,
                          errorCount |-> st.errors, calls |-> st.calls]
  /\ hist' = [hist EXCEPT !.prevCompleted = -1]
  /\ reqs' = [reqs EXCEPT !.restores = reqs.restores + 1]
  /\ UNCHANGED <<jobs, seoAuto, pc, loc>>
  /\ UNCHANGED <<concVars, textVars>>

\* ------------------------------------------------- theme-facing read (loader)
\* `gid://shopify/${type}/${tail}`: a text, as a sequence; the tail of the
\* global id of media i is <<i>>
Gid(type, tail) == <<type>> \o tail

\* the id of a node selected by `... on MediaImage { id }`: the imageId that
\* the optimizer stores in a record
MediaGid(id) == Gid("MediaImage", <<id>>)

\* imageId: `gid://shopify/ProductImage/${imageId}`
ImageKey(param) == Gid("ProductImage", param)

\* findUnique({where: {shop_imageId: {shop, imageId: key}}}): the ids of the
\* records of the shop that have this imageId (none or one)
FindByImageId(l, key) == {id \in DOMAIN l : MediaGid(l[id].imageId) = key}

\* ((fileSize - webpFileSize) / fileSize) * 100 when both are truthy, else 0;
\* the whole percents of it
SavingsPercent(rec) ==
  IF rec.fileSize > 0 /\ rec.webpFileSize > 0
  THEN ((rec.fileSize - rec.webpFileSize) * 100) \div rec.fileSize
  ELSE 0

NotOptimized ==
  [error |-> "Image not optimized", originalUrl |-> Null, webpUrl |-> Null]

\* the body of the try block of the loader
WebpImageResponse(l, key) ==
  LET hit == FindByImageId(l, key)
  IN IF hit = {} \/ (\A id \in hit : l[id].status # "completed")
     THEN [status |-> 404, body |-> NotOptimized]
     ELSE LET rec == l[CHOOSE id \in hit : TRUE]
          IN [status |-> 200,
              body |-> [imageId |-> rec.imageId, originalUrl |-> rec.originalUrl,
                        webpUrl |-> rec.webpUrl, fileSize |-> rec.fileSize,
                        webpFileSize |-> rec.webpFileSize, savings |-> SavingsPercent(rec)]]

\* the forms in which a caller can name image `id` in the path: the tail of
\* its global id, or the global id itself
ParamsOf(id) == {<<id>>, MediaGid(id)}

\* GET /api/webp-image/:imageId?shop=...; param and shop are Null when the
\* request has none; image is the image the caller asks about, in this shop
WebpImage(image, param, shop) ==
  /\ \/ /\ param = Null \/ shop = Null
        /\ event' = [op |-> "webp_image", image |-> image, param |-> param,
                     shop |-> shop, status |-> 400,
                     body |-> [error |-> "Missing imageId or shop parameter"]]
        /\ UNCHANGED faults
     \/ /\ param # Null /\ shop # Null
        /\ event' = [op |-> "webp_image", image |-> image, param |-> param,
                     shop |-> shop] @@ WebpImageResponse(ledger, ImageKey(param))
        /\ UNCHANGED faults
     \/ /\ param # Null /\ shop # Null
        /\ Fault
        /\ event' = [op |-> "webp_image", image |-> image, param |-> param,
                     shop |-> shop, status |-> 500,
                     body |-> [error |-> "Internal server error"]]
  /\ UNCHANGED <<media, nextMediaId, ledger, jobs, seoAuto, pc, loc, reqs, hist>>
  /\ UNCHANGED <<concVars, textVars>>

\* the theme asks about the images that the products had at the start
WebpImageRequest ==
  \E image \in 1..NImages :
     \E param \in ParamsOf(image) \cup {Null}, shop \in {Null, <<"shop">>} :
        WebpImage(image, param, shop)

\* ------------------------------------------- concurrently handled requests
\* findUnique({where: {shop_imageId: {shop, imageId}}}): the row id, or 0
RowOf(t, shop, imageId) ==
  LET hit == {r \in 1..Len(t) : t[r].shop = shop /\ t[r].imageId = imageId}
  IN IF hit = {} THEN 0 ELSE Min(hit)

RowStatus(t, shop, imageId) ==
  IF RowOf(t, shop, imageId) = 0 THEN "pending"
  ELSE t[RowOf(t, shop, imageId)].status

\* the unique index on (shop, imageId): the create of a key that a row
\* already has is rejected
KeyTaken(t, shop, imageId) == RowOf(t, shop, imageId) # 0

\* update({where: {shop_imageId}, data: {status}})
UpdateRow(t, shop, imageId, status) ==
  [t EXCEPT ![RowOf(t, shop, imageId)].status = status]

\* create: {shop, productId, imageId, originalUrl, originalGid, originalAlt,
\* status}: the WebP columns of a new row are null
NewRow(shop, imageId, status) ==
  [shop |-> shop, imageId |-> imageId, status |-> status,
   webpUrl |-> Null, webpGid |-> NoGid, webpFileSize |-> NullInt]

\* update({where: {shop_imageId}, data: {webpUrl, webpGid, ..., webpFileSize,
\* status: "completed"}}): the media the swap created has a new id
CompleteRow(t, shop, imageId) ==
  [t EXCEPT ![RowOf(t, shop, imageId)] =
     [@ EXCEPT !.status = "completed",
               !.webpUrl = CdnUrl(NImages + imageId, MaxWebp),
               !.webpGid = NImages + imageId,
               !.webpFileSize = MaxWebp]]

\* mutant: create in place of upsert
UpsertWriteCreates(t, found, shop, imageId, status) ==
  IF KeyTaken(t, shop, imageId) THEN [t |-> t, thrown |-> TRUE]
  ELSE [t |-> Append(t, NewRow(shop, imageId, status)), thrown |-> FALSE]

\* the write of upsert({where, create, update}): the update when the read of
\* the upsert found the row, the create when it did not
UpsertWrite(t, found, shop, imageId, status) ==
  IF found THEN [t |-> UpdateRow(t, shop, imageId, status), thrown |-> FALSE]
  ELSE IF KeyTaken(t, shop, imageId) THEN [t |-> t, thrown |-> TRUE]
  ELSE [t |-> Append(t, NewRow(shop, imageId, status)), thrown |-> FALSE]

\* the images a request loops over: the listing of its shop, or the target
ConcItems(target) == IF target = NoGid THEN [i \in 1..NImages |-> i] ELSE <<target>>

ConcImage(r) == r.items[r.idx]

\* the next iteration of the loop, or the code after the loop
ConcNext(r) ==
  [r EXCEPT !.idx = r.idx + 1,
            !.pc = IF r.idx + 1 > Len(r.items) THEN "finalize" ELSE "check"]

\* the request arrives: db.optimizationJob.create({shop, status: "running"})
ConcStart(w) ==
  /\ req[w].pc = "new"
  /\ \E shop \in 1..NShops, target \in 0..NImages :
       /\ jobRows' = Append(jobRows,
             [shop |-> shop, status |-> "running", cancelled |-> FALSE])
       /\ req' = [req EXCEPT ![w] =
             [NoRequest EXCEPT
                !.pc = "check", !.shop = shop,
                !.actionType = IF target = NoGid THEN "optimize_new" ELSE "retry_single",
                !.items = ConcItems(target), !.job = Len(jobRows) + 1]]
       /\ event' = [op |-> "conc_start", w |-> w, shop |-> shop,
                    job |-> Len(jobRows) + 1]
  /\ UNCHANGED <<rows, reqs>>
  /\ UNCHANGED <<seqVars, textVars>>

\* the cancellation check, the skip test and the job update of one item
ConcCheck(w) ==
  /\ req[w].pc = "check"
  /\ LET r == req[w]
     IN IF jobRows[r.job].cancelled
        THEN /\ jobRows' = [jobRows EXCEPT ![r.job].status = "cancelled"]
             /\ req' = [req EXCEPT ![w].pc = "done"]
             /\ event' = [op |-> "conc_return", w |-> w, actionType |-> "cancelled"]
        ELSE IF r.actionType = "optimize_new"
                /\ RowStatus(rows, r.shop, ConcImage(r)) = "completed"
        THEN /\ req' = [req EXCEPT ![w] = ConcNext(r)]
             /\ event' = [op |-> "conc_skip", w |-> w, image |-> ConcImage(r)]
             /\ UNCHANGED jobRows
        ELSE /\ req' = [req EXCEPT ![w].pc = "upsertFind", ![w].intent = "processing"]
             /\ event' = [op |-> "conc_begin", w |-> w, image |-> ConcImage(r)]
             /\ UNCHANGED jobRows
  /\ UNCHANGED <<rows, reqs>>
  /\ UNCHANGED <<seqVars, textVars>>

\* upsert, first half: the read of the row by its key
ConcUpsertFind(w) ==
  /\ req[w].pc = "upsertFind"
  /\ req' = [req EXCEPT
       ![w].found = KeyTaken(rows, req[w].shop, ConcImage(req[w])),
       ![w].pc = "upsertWrite"]
  /\ event' = [op |-> "conc_find", w |-> w, image |-> ConcImage(req[w])]
  /\ UNCHANGED <<rows, jobRows, reqs>>
  /\ UNCHANGED <<seqVars, textVars>>

\* upsert, second half: the update or the create; a rejected create of the
\* upsert to processing is caught by the item's catch block, a rejected
\* create of the catch block's own upsert ends the handler
ConcUpsertWrite(w) ==
  /\ req[w].pc = "upsertWrite"
  /\ LET r == req[w]
         res == UpsertWrite(rows, r.found, r.shop, ConcImage(r), r.intent)
     IN /\ rows' = res.t
        /\ event' = [op |-> "conc_upsert", w |-> w, shop |-> r.shop,
                     image |-> ConcImage(r), status |-> r.intent,
                     found |-> r.found, thrown |-> res.thrown]
        /\ req' = [req EXCEPT ![w] =
             IF ~res.thrown
             THEN IF r.intent = "processing" THEN [r EXCEPT !.pc = "pipeline"]
                  ELSE ConcNext(r)
             ELSE IF r.intent = "processing"
                  THEN [r EXCEPT !.pc = "upsertFind", !.intent = "failed"]
                  ELSE [r EXCEPT !.pc = "aborted"]]
  /\ UNCHANGED <<jobRows, reqs>>
  /\ UNCHANGED <<seqVars, textVars>>

\* fetch .. create of one item and the update to completed, or a throw of
\* one of them and the catch block
ConcPipeline(w) ==
  /\ req[w].pc = "pipeline"
  /\ LET r == req[w]
     IN \/ /\ rows' = CompleteRow(rows, r.shop, ConcImage(r))
           /\ req' = [req EXCEPT ![w] = ConcNext(r)]
           /\ event' = [op |-> "conc_completed", w |-> w, image |-> ConcImage(r)]
        \/ /\ req' = [req EXCEPT ![w].pc = "upsertFind", ![w].intent = "failed"]
           /\ event' = [op |-> "conc_catch", w |-> w, image |-> ConcImage(r)]
           /\ UNCHANGED rows
  /\ UNCHANGED <<jobRows, reqs>>
  /\ UNCHANGED <<seqVars, textVars>>

\* after the loop: status = "completed"
ConcFinalize(w) ==
  /\ req[w].pc = "finalize"
  /\ jobRows' = [jobRows EXCEPT ![req[w].job].status = "completed"]
  /\ req' = [req EXCEPT ![w].pc = "done"]
  /\ event' = [op |-> "conc_return", w |-> w, actionType |-> req[w].actionType]
  /\ UNCHANGED <<rows, reqs>>
  /\ UNCHANGED <<seqVars, textVars>>

\* findFirst({where: {shop, status: "running"}, orderBy: {createdAt: "desc"}})
RunningJobOf(jb, shop) ==
  LET running == {j \in 1..Len(jb) : jb[j].shop = shop /\ jb[j].status = "running"}
  IN IF running = {} THEN NoJob ELSE CHOOSE j \in running : \A k \in running : k <= j

\* the cancel request of a shop; jobId is the form field, NoJob when absent
ConcCancel(shop, jobId) ==
  /\ reqs.cancels < MaxCancels
  /\ LET j == IF jobId # NoJob THEN jobId ELSE RunningJobOf(jobRows, shop)
     IN /\ jobRows' = SetCancelled(jobRows, j)
        /\ event' = [op |-> "conc_cancel", shop |-> shop, job |-> j]
  /\ reqs' = [reqs EXCEPT !.cancels = reqs.cancels + 1]
  /\ UNCHANGED <<rows, req>>
  /\ UNCHANGED <<seqVars, textVars>>

ConcStartRequest == \E w \in 1..NRequests : ConcStart(w)

ConcCheckStep == \E w \in 1..NRequests : ConcCheck(w)

ConcUpsertFindStep == \E w \in 1..NRequests : ConcUpsertFind(w)

ConcUpsertWriteStep == \E w \in 1..NRequests : ConcUpsertWrite(w)

ConcPipelineStep == \E w \in 1..NRequests : ConcPipeline(w)

ConcFinalizeStep == \E w \in 1..NRequests : ConcFinalize(w)

ConcCancelRequest ==
  \E shop \in 1..NShops, jobId \in 0..Len(jobRows) : ConcCancel(shop, jobId)

\* --------------------------------------------------------- template engine
\* a text is a sequence of characters; the characters of the inputs: the
\* placeholder mark, a lower-case and an upper-case letter (the two keys),
\* white space and a separator
Chars == {"#", "k", "K", " ", "-"}

Keys == {<<"k">>, <<"K">>}

\* \s
IsSpace(c) == c = " "

\* [-_|,]
IsSeparator(c) == c \in {"-", "_", "|", ","}

\* [a-z0-9-]
SlugChars ==
  {"a", "b", "c", "d", "e", "f", "g", "h", "i", "j", "k", "l", "m", "n", "o",
   "p", "q", "r", "s", "t", "u", "v", "w", "x", "y", "z",
   "0", "1", "2", "3", "4", "5", "6", "7", "8", "9", "-"}

UpperCase ==
  <<"A", "B", "C", "D", "E", "F", "G", "H", "I", "J", "K", "L", "M", "N", "O",
    "P", "Q", "R", "S", "T", "U", "V", "W", "X", "Y", "Z">>

LowerCase ==
  <<"a", "b", "c", "d", "e", "f", "g", "h", "i", "j", "k", "l", "m", "n", "o",
    "p", "q", "r", "s", "t", "u", "v", "w", "x", "y", "z">>

\* toLowerCase(), one character
LowerChar(c) ==
  IF \E i \in 1..26 : UpperCase[i] = c
  THEN LowerCase[CHOOSE i \in 1..26 : UpperCase[i] = c]
  ELSE c

Texts(n) == UNION {[1..m -> Chars] : m \in 0..n}

\* s.replace(new RegExp(pat, "g"), val) for a pattern without special
\* characters and a value without `$`: every occurrence, left to right, the
\* scan going on after the occurrence
RECURSIVE ReplaceAll(_, _, _)
ReplaceAll(s, pat, val) ==
  IF Len(s) < Len(pat) THEN s
  ELSE IF SubSeq(s, 1, Len(pat)) = pat
       THEN val \o ReplaceAll(SubSeq(s, Len(pat) + 1, Len(s)), pat, val)
       ELSE <<s[1]>> \o ReplaceAll(Tail(s), pat, val)

Placeholder(key) == <<"#">> \o key \o <<"#">>

\* for (const [key, value] of Object.entries(variables))
\*   result = result.replace(new RegExp(`#${key}#`, "g"), value)
RECURSIVE Substitute(_, _)
Substitute(s, entries) ==
  IF entries = <<>> THEN s
  ELSE Substitute(ReplaceAll(s, Placeholder(entries[1].key), entries[1].value),
                  Tail(entries))

\* replace(/\s+/g, with): every run of white space becomes `with`
RECURSIVE ReplaceSpaceRuns(_, _)
ReplaceSpaceRuns(s, with) ==
  IF s = <<>> THEN <<>>
  ELSE IF IsSpace(s[1])
       THEN IF Len(s) > 1 /\ IsSpace(s[2]) THEN ReplaceSpaceRuns(Tail(s), with)
            ELSE with \o ReplaceSpaceRuns(Tail(s), with)
       ELSE <<s[1]>> \o ReplaceSpaceRuns(Tail(s), with)

RECURSIVE TrimStart(_)
TrimStart(s) == IF s # <<>> /\ IsSpace(s[1]) THEN TrimStart(Tail(s)) ELSE s

RECURSIVE TrimEnd(_)
TrimEnd(s) ==
  IF s # <<>> /\ IsSpace(s[Len(s)]) THEN TrimEnd(SubSeq(s, 1, Len(s) - 1)) ELSE s

\* trim()
Trim(s) == TrimEnd(TrimStart(s))

\* replace(/[-_|,]\s*$/, ""): the first separator that only white space
\* follows is removed with that white space
StripSeparator(s) ==
  LET hit == {i \in 1..Len(s) :
                /\ IsSeparator(s[i])
                /\ \A j \in (i + 1)..Len(s) : IsSpace(s[j])}
  IN IF hit = {} THEN s ELSE SubSeq(s, 1, Min(hit) - 1)

\* applyTemplate(template, variables)
ApplyTemplate(template, entries) ==
  Trim(StripSeparator(Trim(ReplaceSpaceRuns(Substitute(template, entries), <<" ">>))))

ToLowerCase(s) == [i \in 1..Len(s) |-> LowerChar(s[i])]

\* replace(/[^a-z0-9-]/g, "")
KeepSlugChars(s) == SelectSeq(s, LAMBDA c : c \in SlugChars)

\* replace(/-+/g, "-")
RECURSIVE CollapseHyphens(_)
CollapseHyphens(s) ==
  IF s = <<>> THEN <<>>
  ELSE IF s[1] = "-" /\ Len(s) > 1 /\ s[2] = "-" THEN CollapseHyphens(Tail(s))
       ELSE <<s[1]>> \o CollapseHyphens(Tail(s))

\* replace(/^-|-$/g, ""): a hyphen at the start and a hyphen at the end
TrimHyphen(s) ==
  LET rest == IF s # <<>> /\ s[1] = "-" THEN Tail(s) ELSE s
  IN IF rest # <<>> /\ rest[Len(rest)] = "-" THEN SubSeq(rest, 1, Len(rest) - 1)
     ELSE rest

\* mutant: the chain without the collapse of repeated hyphens
SlugifyNoCollapse(s) ==
  TrimHyphen(KeepSlugChars(ReplaceSpaceRuns(ToLowerCase(s), <<"-">>)))

\* the chain that makeFileName applies to the rendered text
Slugify(s) ==
  TrimHyphen(CollapseHyphens(KeepSlugChars(
     ReplaceSpaceRuns(ToLowerCase(s), <<"-">>))))

\* makeFileName(template, variables)
MakeFileName(template, entries) == Slugify(ApplyTemplate(template, entries))

\* the variable maps: the two keys in either order, with their values
VariableMaps ==
  {<<[key |-> k1, value |-> v1], [key |-> k2, value |-> v2]>> :
      k1 \in Keys, k2 \in Keys, v1 \in Texts(MaxValueChars), v2 \in Texts(MaxValueChars)}

RenderInputs ==
  {[phase |-> "input", template |-> t, variables |-> m, out |-> <<>>] :
      t \in Texts(MaxTemplateLen),
      m \in {x \in VariableMaps :
               /\ x[1].key # x[2].key
               /\ Len(x[1].value) + Len(x[2].value) <= MaxValueChars}}

\* altText = applyTemplate(seoSettings.altTextTemplate, templateVars)
Render ==
  /\ txt.phase = "input"
  /\ txt' = [txt EXCEPT !.phase = "rendered",
                        !.out = ApplyTemplate(txt.template, txt.variables)]
  /\ UNCHANGED <<seqVars, concVars, reqs, event>>

\* fileName = makeFileName(seoSettings.fileNameTemplate, templateVars)
Name ==
  /\ txt.phase = "input"
  /\ txt' = [txt EXCEPT !.phase = "named",
                        !.out = MakeFileName(txt.template, txt.variables)]
  /\ UNCHANGED <<seqVars, concVars, reqs, event>>

\* `optimized-${media.id.split("/").pop()}`, for the first media
DefaultFileName == <<"o", "p", "t", "i", "m", "i", "z", "e", "d", "-", "1">>

\* let fileName = `optimized-...`; if (seoSettings && autoApplyOnOptimize)
\*   if (seoSettings.fileNameTemplate) fileName = makeFileName(...)
FileNameFor(auto, template, entries) ==
  IF auto /\ template # <<>> THEN MakeFileName(template, entries)
  ELSE DefaultFileName

\* filename: `${fileName}.webp` of the staged upload of the WebP
StagedFileName(fileName) == fileName \o <<".", "w", "e", "b", "p">>

\* the selection of the file name of one image and its staged upload
SelectFileName ==
  /\ txt.phase = "input"
  /\ txt' = [txt EXCEPT
       !.phase = "fileName",
       !.out = FileNameFor(seoAuto, txt.template, txt.variables)]
  /\ event' = [op |-> "stagedUploadsCreate",
               filename |-> StagedFileName(txt'.out)]
  /\ UNCHANGED <<seqVars, concVars, reqs>>

\* "Shirt - Acme Co.!!"
ShirtAcme ==
  <<"S", "h", "i", "r", "t", " ", "-", " ", "A", "c", "m", "e", " ", "C", "o",
    ".", "!", "!">>

SlugInputs ==
  {[phase |-> "text", text |-> t, out |-> <<>>] :
      t \in Texts(MaxTextLen) \cup {ShirtAcme}}

\* the slug chain applied to a text
Slug ==
  /\ txt.phase = "text"
  /\ txt' = [txt EXCEPT !.phase = "slug", !.out = Slugify(txt.text)]
  /\ UNCHANGED <<seqVars, concVars, reqs, event>>

\* ------------------------------------------------------------ specification
Next ==
  \/ OptimizeNew
  \/ RetrySingle
  \/ BeginItem
  \/ Fetch
  \/ Backup
  \/ Transcode
  \/ UploadWebp
  \/ DeleteOriginal
  \/ CreateWebp
  \/ LedgerCompleted
  \/ Finalize
  \/ CancelRequest
  \/ RevertAll
  \/ RevertSingleRequest
  \/ RestoreMissing

Spec == Init /\ [][Next]_vars

\* one step of the orchestrator: the awaited call it is at returns
OrchestratorStep ==
  \/ BeginItem
  \/ Fetch
  \/ Backup
  \/ Transcode
  \/ UploadWebp
  \/ DeleteOriginal
  \/ CreateWebp
  \/ LedgerCompleted
  \/ Finalize

\* every external call eventually returns, with success or with a failure
SpecFair == Spec /\ WF_vars(OrchestratorStep)

NextRead ==
  \/ OptimizeNew
  \/ OrchestratorStep
  \/ RevertAll
  \/ RestoreMissing
  \/ WebpImageRequest

\* bulk runs, revert_all and restore_missing, which take the records through
\* every status, and the requests of the theme for the optimized image
SpecRead == Init /\ [][NextRead]_vars

NextConc ==
  \/ ConcStartRequest
  \/ ConcCheckStep
  \/ ConcUpsertFindStep
  \/ ConcUpsertWriteStep
  \/ ConcPipelineStep
  \/ ConcFinalizeStep
  \/ ConcCancelRequest

SpecConc == Init /\ [][NextConc]_vars

InitRender ==
  /\ InitState
  /\ seoAuto = TRUE
  /\ txt \in RenderInputs

NextRender ==
  \/ Render
  \/ Name
  \/ SelectFileName

\* one call of applyTemplate or of makeFileName, or the selection of the
\* file name of an image, on every template and variable map within the bounds
SpecRender == InitRender /\ [][NextRender]_vars

InitSlug ==
  /\ InitState
  /\ seoAuto = TRUE
  /\ txt \in SlugInputs

NextSlug == Slug

\* the slug chain on every text within the bounds
SpecSlug == InitSlug /\ [][NextSlug]_vars

\* ------------------------------------------------------------- properties
Terminal == {"completed", "cancelled"}

Returned == pc = "idle" /\ loc.job # NoJob

Counted(j) == jobs[j].processedCount + jobs[j].errorCount + jobs[j].skippedCount

\* C1: when the cancel request for a bulk job is made after item k has finished
\* and before the cancellation check of item k+1 (0 <= k <= n), the run ends
\* with the job `cancelled` and processedCount + errorCount + skippedCount = k
CancellationBoundary ==
  (Returned /\ loc.actionType = "optimize_new" /\ hist.cancelK >= 0)
     => /\ jobs[loc.job].status = "cancelled"
        /\ Counted(loc.job) = hist.cancelK

\* C2: once the status of a job is `completed` or `cancelled` it never changes
JobStatusTerminal ==
  [][\A j \in 1..Len(jobs) :
        jobs[j].status \in Terminal => jobs'[j].status = jobs[j].status]_vars

\* C3: the delete of the original media is issued only after the backup of the
\* original bytes has succeeded and the transcode has succeeded
BackupBeforeSwap ==
  [][(event'.op = "delete" /\ event'.by = "optimize")
        => (loc.backupDurable /\ loc.transcoded)]_vars

\* C4: a bulk run that follows a bulk run, with no change of the platform in
\* between, skips as many images as the first run left `completed`, processes
\* none and issues no delete / create mutation
BulkIdempotence ==
  (Returned /\ loc.actionType = "optimize_new" /\ hist.expectSkipped >= 0
      /\ hist.cancelK = -1 /\ ~hist.cancelMid)
     => /\ jobs[loc.job].skippedCount = hist.expectSkipped
        /\ jobs[loc.job].processedCount = 0
        /\ hist.runCalls = 0

CompletedRecordFields ==
  \A id \in DOMAIN ledger :
     ledger[id].status = "completed"
        => /\ ledger[id].webpUrl # Null
           /\ ledger[id].fileSize # NullInt
           /\ ledger[id].webpFileSize # NullInt
           /\ ledger[id].fileSize = BytesAt(ledger[id].originalUrl)
           /\ ledger[id].fileSize = BytesAt(ledger[id].backupUrl)
           /\ ledger[id].webpFileSize = BytesAt(ledger[id].webpUrl)

CompletedRecordWitness ==
  \E id \in DOMAIN ledger :
     /\ ledger[id].status = "completed"
     /\ ledger[id].webpUrl[1] = "webp"
     /\ ledger[id].fileSize = OrigBytes(2)

Savings(id) == ledger[id].fileSize - ledger[id].webpFileSize

\* C7: at the end of a run, totalSaved is the sum of fileSize - webpFileSize
\* over the images the run counted in processedCount
SavingsAccounting ==
  Returned =>
     jobs[loc.job].totalSaved =
        SumOver(hist.counted, [id \in hist.counted |-> Savings(id)])

AllowedEdges ==
  {<<"pending", "processing">>, <<"processing", "completed">>,
   <<"processing", "failed">>, <<"completed", "reverted">>,
   <<"reverted", "restored">>, <<"failed", "processing">>}

\* C8: every change of the status of a ledger record follows one of the edges
\* of the ledger state machine
LedgerTransitions ==
  [][\A id \in DOMAIN ledger :
        ledger'[id].status # ledger[id].status
           => <<ledger[id].status, ledger'[id].status>> \in AllowedEdges]_vars

RevertSingleGuarded ==
  [][(event'.op = "revert_single" /\ StatusOf(ledger, event'.id) # "completed")
        => /\ ~event'.success
           /\ event'.calls = 0
           /\ media' = media
           /\ nextMediaId' = nextMediaId
           /\ ledger' = ledger]_vars

RevertSingleGuardedWitness ==
  /\ event.op = "revert_single"
  /\ event.id \in DOMAIN ledger
  /\ ledger[event.id].status = "failed"
  /\ ~event.success

\* C11: revert_all partitions the records that were `completed` when it
\* started: a record whose delete and re-create succeeded ends `reverted` and
\* is counted in revertedCount, a record with a failure stays `completed` and
\* is counted in errorCount; the two counts add up to the number of records,
\* and a failure on one record does not keep the others from being reverted
RevertAllPartition ==
  [][(event'.op = "revert_all")
        => LET ids == WithStatus(ledger, "completed")
               clean == {id \in ids : event'.del[id] # "throw" /\ event'.cre[id] = "ok"}
           IN /\ \A id \in clean : ledger'[id].status = "reverted"
              /\ \A id \in ids \ clean : ledger'[id].status = "completed"
              /\ event'.revertedCount = Cardinality(clean)
              /\ event'.errorCount = Cardinality(ids \ clean)
              /\ event'.revertedCount + event'.errorCount = Cardinality(ids)
              /\ \A id \in DOMAIN ledger \ ids :
                    ledger'[id] = ledger[id]]_vars

RevertAllPartitionWitness ==
  /\ event.op = "revert_all"
  /\ event.revertedCount = 1
  /\ event.errorCount = 1
  /\ event.cre[Min(event.ids)] # "ok"
  /\ ledger[Min(event.ids)].status = "completed"
  /\ \E id \in event.ids : ledger[id].status = "reverted"

OneRunningJobPerShop ==
  \A shop \in 1..NShops :
     Cardinality({j \in 1..Len(jobRows) :
        jobRows[j].shop = shop /\ jobRows[j].status = "running"}) <= 1

JobFinalization ==
  \A j \in 1..MaxRuns :
     /\ (Len(jobs) >= j) ~> (Len(jobs) >= j /\ jobs[j].status \in Terminal)
     /\ (Len(jobs) >= j) ~>
           /\ Len(jobs) >= j
           /\ \/ jobs[j].cancelled
              \/ /\ jobs[j].status = "completed"
                 /\ loc.job = j
                 /\ Counted(j) = Len(loc.items)

\* C16: the persisted processedCount, errorCount and skippedCount of a job
\* never decrease, whatever the interleaving with cancel requests: a status
\* poll reads the job row of some state, so two successive reads are ordered
\* as the states they read
MonotonicProgress ==
  [][\A j \in 1..Len(jobs) :
        /\ jobs'[j].processedCount >= jobs[j].processedCount
        /\ jobs'[j].errorCount >= jobs[j].errorCount
        /\ jobs'[j].skippedCount >= jobs[j].skippedCount]_vars

MonotonicProgressWitness ==
  /\ event.op = "cancel"
  /\ event.job = loc.job
  /\ pc = "fetch"
  /\ loc.idx = 2
  /\ jobs[loc.job].processedCount + jobs[loc.job].errorCount = 1

\* C17: once a cancel request has set the cancelled flag of the running job,
\* the item in progress goes on step by step to its end, the next
\* cancellation check ends the run with the job `cancelled`, and no further
\* item is marked `processing`, fetched, backed up, transcoded or swapped
CancellationGranularity ==
  [][(~Quiet /\ jobs[loc.job].cancelled /\ event'.op # "cancel")
        => /\ pc = "check"
                => /\ event'.op \in {"return", "abort"}
                   /\ pc' \in {"idle", "aborted"}
                   /\ event'.op = "return"
                        => /\ event'.actionType = "cancelled"
                           /\ jobs'[loc.job].status = "cancelled"
                   /\ ledger' = ledger
                   /\ media' = media
                   /\ loc' = loc
           /\ pc \notin {"check", "finalize"}
                => /\ event'.op \in {"fetch", "backup", "transcode", "uploadWebp",
                                      "delete", "create", "completed", "catch", "abort"}
                   /\ event'.op # "abort" => pc' \notin {"idle", "aborted"}
                   /\ event'.op # "abort" => loc'.idx \in {loc.idx, loc.idx + 1}
                   /\ event'.op = "completed"
                        => ledger'[event'.id].status = "completed"]_vars

\* the cancel request arrived while image 1 was in its pipeline; image 1 was
\* completed and the check of image 2 ended the run
CancellationGranularityWitness ==
  /\ event.op = "return"
  /\ event.actionType = "cancelled"
  /\ hist.cancelMid
  /\ loc.idx = 2
  /\ jobs[loc.job].processedCount = 1
  /\ jobs[loc.job].status = "cancelled"
  /\ \A id \in DOMAIN ledger : ledger[id].status = "completed"

\* the two entries of a variable map in the other order
Swapped(entries) == <<entries[2], entries[1]>>

\* one pass over the template: each placeholder of the template is replaced
\* by its value, and the values are not scanned
RECURSIVE SubstituteOnce(_, _)
SubstituteOnce(s, entries) ==
  IF s = <<>> THEN <<>>
  ELSE LET hit == {i \in 1..Len(entries) :
                     /\ Len(s) >= Len(Placeholder(entries[i].key))
                     /\ SubSeq(s, 1, Len(Placeholder(entries[i].key)))
                           = Placeholder(entries[i].key)}
       IN IF hit = {} THEN <<s[1]>> \o SubstituteOnce(Tail(s), entries)
          ELSE LET e == entries[Min(hit)]
               IN e.value \o SubstituteOnce(
                     SubSeq(s, Len(Placeholder(e.key)) + 1, Len(s)), entries)

\* C18: the result of applyTemplate is the same for both orders of the keys,
\* and it is the result of one pass over the template: a placeholder that is
\* only inside a substituted value stays in the output as it is
TemplateNoReexpansion ==
  txt.phase = "rendered"
     => /\ txt.out = ApplyTemplate(txt.template, Swapped(txt.variables))
        /\ txt.out = Trim(StripSeparator(Trim(ReplaceSpaceRuns(
                         SubstituteOnce(txt.template, txt.variables), <<" ">>))))

\* C19: the result of applyTemplate has no white space at its start or end,
\* no two white-space characters in a row, and no separator at its end
TemplatePostProcessed ==
  txt.phase = "rendered"
     => /\ txt.out # <<>>
             => /\ ~IsSpace(txt.out[1])
                /\ ~IsSpace(txt.out[Len(txt.out)])
                /\ ~IsSeparator(txt.out[Len(txt.out)])
        /\ \A i \in 1..(Len(txt.out) - 1) :
              ~(IsSpace(txt.out[i]) /\ IsSpace(txt.out[i + 1]))

\* C20: the result of the slug chain holds only characters of [a-z0-9-], no
\* two hyphens in a row and no hyphen at its start or end; "Shirt - Acme
\* Co.!!" gives "shirt-acme-co"
SlugShape ==
  txt.phase \in {"slug", "named"}
     => /\ \A i \in 1..Len(txt.out) : txt.out[i] \in SlugChars
        /\ \A i \in 1..(Len(txt.out) - 1) :
              ~(txt.out[i] = "-" /\ txt.out[i + 1] = "-")
        /\ txt.out # <<>> => (txt.out[1] # "-" /\ txt.out[Len(txt.out)] # "-")
        /\ (txt.phase = "slug" /\ txt.text = ShirtAcme)
             => txt.out = <<"s", "h", "i", "r", "t", "-", "a", "c", "m", "e",
                            "-", "c", "o">>

SlugShapeWitness ==
  /\ txt.phase = "slug"
  /\ txt.text = ShirtAcme
  /\ Len(txt.out) = 13

\* C21: a request that names image id of the shop is answered with the
\* optimized data (original url, WebP url, both sizes) if and only if the
\* record of that image exists with status `completed`; in every other state
\* of the ledger it is answered 404
ReadCompletedOnly ==
  (event.op = "webp_image" /\ event.param # Null /\ event.shop # Null
      /\ event.status # 500)
     => IF StatusOf(ledger, event.image) = "completed"
        THEN /\ event.status = 200
             /\ event.body.originalUrl = ledger[event.image].originalUrl
             /\ event.body.webpUrl = ledger[event.image].webpUrl
             /\ event.body.fileSize = ledger[event.image].fileSize
             /\ event.body.webpFileSize = ledger[event.image].webpFileSize
        ELSE event.status = 404

FailedCarriesNoWebp ==
  \A a \in 1..Len(rows) :
     rows[a].status = "failed"
        => /\ rows[a].webpUrl = Null
           /\ rows[a].webpGid = NoGid
           /\ rows[a].webpFileSize = NullInt

\* C24: the original media is deleted only when every step of the backup
\* reported success (staged target, byte upload, fileCreate without user
\* errors); after a fileCreate that answered user errors the item fails, it
\* does not go on to the transcode and the swap
DeleteNeedsBackup ==
  /\ [](pc \in {"transcode", "uploadWebp", "delete", "create", "ledger"}
          => (loc.backupUrl # Null /\ loc.backupDurable))
  /\ [][(event'.op = "delete" /\ event'.by = "optimize")
          => (loc.backupUrl # Null /\ loc.backupDurable)]_vars

\* C25: per-item errors of the delete do not fail the item: the run goes on to
\* the create with nothing counted, and when the create then succeeds the
\* record becomes `completed`, processedCount grows by 1 and errorCount stays
DeleteErrorsNonFatal ==
  [][/\ (event'.op = "catch" => event'.step # "delete_errors")
     /\ (event'.op = "delete" /\ event'.by = "optimize"
            /\ event'.outcome = "user_errors")
           => /\ pc' = "create"
              /\ loc' = loc
              /\ ledger' = ledger
              /\ jobs' = jobs
     /\ (pc = "ledger" /\ event'.op = "completed" /\ HasMedia(media, Cur.id))
           => /\ ledger'[Cur.id].status = "completed"
              /\ loc'.processedCount = loc.processedCount + 1
              /\ loc'.errorCount = loc.errorCount
              /\ jobs'[loc.job].processedCount = jobs[loc.job].processedCount + 1
              /\ jobs'[loc.job].errorCount = jobs[loc.job].errorCount]_vars

\* the original is still on the product beside the WebP: its delete answered
\* errors, and the item is counted as a success
DeleteErrorsNonFatalWitness ==
  /\ event.op = "completed"
  /\ HasMedia(media, event.id)
  /\ HasMedia(media, ledger[event.id].webpGid)
  /\ ledger[event.id].status = "completed"
  /\ jobs[loc.job].processedCount = 1
  /\ jobs[loc.job].errorCount = 0

\* C26: per-item errors of the create fail the item: the swap step goes on to
\* the update of the record only with a created media, and when the create
\* answers errors the record ends `failed`, errorCount grows by 1 and
\* processedCount and totalSaved stay as they were
CreateErrorsFatal ==
  [][/\ (pc = "create" /\ event'.op = "create")
           => /\ pc' = "ledger"
              /\ HasMedia(media', loc'.newMediaId)
              /\ ~HasMedia(media, loc'.newMediaId)
     /\ (event'.op = "catch" /\ event'.step = "create")
           => /\ media' = media
              /\ ledger'[Cur.id].status = "failed"
              /\ loc'.errorCount = loc.errorCount + 1
              /\ jobs'[loc.job].errorCount = jobs[loc.job].errorCount + 1
              /\ loc'.processedCount = loc.processedCount
              /\ jobs'[loc.job].processedCount = jobs[loc.job].processedCount
              /\ loc'.totalSaved = loc.totalSaved
              /\ jobs'[loc.job].totalSaved = jobs[loc.job].totalSaved]_vars

\* the run has returned after the create of its image answered errors
CreateErrorsFatalWitness ==
  /\ Returned
  /\ jobs[loc.job].status = "completed"
  /\ jobs[loc.job].errorCount = 1
  /\ jobs[loc.job].processedCount = 0
  /\ jobs[loc.job].totalSaved = 0
  /\ \E id \in DOMAIN ledger :
        /\ ledger[id].status = "failed"
        /\ ledger[id].webpGid = NoGid
        /\ ~HasMedia(media, id)
  /\ nextMediaId = NImages + 1

\* C27: for every record with status `reverted`, the product does not carry
\* the media that the record's webpGid names
RevertedMediaGone ==
  \A id \in DOMAIN ledger :
     ledger[id].status = "reverted" => ~HasMedia(media, ledger[id].webpGid)

FileNameNeverEmpty ==
  txt.phase = "fileName"
     => /\ txt.out # <<>>
        /\ event.filename # StagedFileName(<<>>)
        /\ MakeFileName(txt.template, txt.variables) = <<>>
              => txt.out = DefaultFileName

TerminalLabelCleared ==
  \A j \in 1..Len(jobs) :
     jobs[j].status \in Terminal => jobs[j].currentImage = Null

\* the media that a handler created: those of media' whose id media has not
Created == {m \in Range(media') : ~HasMedia(media, m.id)}

NewlyReverted ==
  {id \in DOMAIN ledger :
     ledger[id].status # "reverted" /\ ledger'[id].status = "reverted"}

\* C33: for every record reverted by revert_all or revert_single the
\* media-create uses the record's backupUrl as source when it is not null and
\* its originalUrl otherwise, with the record's originalAlt as alt text; a
\* successful revert changes only status (to `reverted`) and altTextUpdated
\* (to false): backupUrl, originalUrl, webpUrl, webpGid and the two sizes stay
RevertSourceSelection ==
  [][(event'.op \in {"revert_all", "revert_single"})
        => /\ \A id \in NewlyReverted :
                 /\ ledger'[id] = [ledger[id] EXCEPT !.status = "reverted",
                                                     !.altTextUpdated = FALSE]
                 /\ \E m \in Created :
                       /\ m.product = ledger[id].productId
                       /\ m.alt = ledger[id].originalAlt
                       /\ m.src = IF ledger[id].backupUrl # Null
                                  THEN ledger[id].backupUrl
                                  ELSE ledger[id].originalUrl
           /\ \A m \in Created :
                 \E id \in DOMAIN ledger :
                    /\ ledger[id].status = "completed"
                    /\ m.product = ledger[id].productId
                    /\ m.alt = ledger[id].originalAlt
                    /\ m.src = IF ledger[id].backupUrl # Null
                               THEN ledger[id].backupUrl
                               ELSE ledger[id].originalUrl]_vars

RevertSourceSelectionWitness ==
  /\ event.op \in {"revert_all", "revert_single"}
  /\ seoAuto
  /\ \E id \in DOMAIN ledger :
        /\ ledger[id].status = "reverted"
        /\ ledger[id].altTextUpdated = FALSE
        /\ ledger[id].webpGid # NoGid
        /\ \E m \in Range(media) :
              m.src = ledger[id].backupUrl /\ m.src # ledger[id].originalUrl

\* the media that a step took off the platform
Deleted == {m \in Range(media) : ~HasMedia(media', m.id)}

\* C34: a retry_single run for image x changes no ledger record but the one
\* of x, issues platform mutations for the media of x only, never increments
\* skippedCount, and processes x whatever the status of its record
RetrySingleScope ==
  [][(~Quiet /\ loc.actionType = "retry_single")
        => /\ \A id \in DOMAIN ledger' :
                 id # loc.target => (id \in DOMAIN ledger /\ ledger'[id] = ledger[id])
           /\ \A m \in Deleted : m.id = loc.target
           /\ \A m \in Created :
                 /\ m.product = ledger[loc.target].productId
                 /\ m.src = StagedUrl("webp", loc.job, loc.target, m.bytes)
           /\ jobs'[loc.job].skippedCount = 0
           /\ loc'.skippedCount = 0
           /\ event'.op # "skip"
           /\ (pc = "check" /\ ~jobs[loc.job].cancelled /\ event'.op # "abort")
                 => /\ event'.op \in {"processing", "catch", "cancel"}
                    /\ event'.op # "cancel" => event'.id = loc.target]_vars

RetrySingleScopeWitness ==
  /\ loc.actionType = "retry_single"
  /\ event.op = "processing"
  /\ event.id = loc.target
  /\ ledger[loc.target].webpGid # NoGid
  /\ Cardinality(DOMAIN ledger) = 2

\* C35: in every reachable state of a job, processedCount + errorCount +
\* skippedCount <= totalImages
ProgressBounded ==
  \A j \in 1..Len(jobs) : Counted(j) <= jobs[j].totalImages

\* C36: once the status of a job is `completed` or `cancelled`, its
\* processedCount, errorCount, skippedCount and totalSaved never change and
\* the run of that job changes no ledger record and no platform media
TerminalJobFrozen ==
  [][\A j \in 1..Len(jobs) :
        jobs[j].status \in Terminal
           => /\ jobs'[j].processedCount = jobs[j].processedCount
              /\ jobs'[j].errorCount = jobs[j].errorCount
              /\ jobs'[j].skippedCount = jobs[j].skippedCount
              /\ jobs'[j].totalSaved = jobs[j].totalSaved
              /\ (j = loc.job /\ ~Quiet) => (ledger' = ledger /\ media' = media)]_vars

\* C37: whenever a run of the orchestrator has returned, the status of its
\* job is `cancelled` if and only if its cancelled flag is true
FlagStatusAgreement ==
  Returned => (jobs[loc.job].status = "cancelled" <=> jobs[loc.job].cancelled)

\* the media that product p carries
MediaOf(p) == {m \in Range(media) : m.product = p}

\* the url of a backup that a run made of one of the initial media
BackupOfOriginal(url) == url[1] = "backup" /\ url[3] \in 1..NImages

\* C38: after bulk optimize runs that met no failure and a revert_all that
\* met none, every product carries as many image media as before the first
\* run, each an original that no run took or re-created from the backup of
\* an original
RevertPreservesImages ==
  (/\ event.op = "revert_all"
   /\ event.errorCount = 0
   /\ faults = 0
   /\ reqs.runs >= 1
   /\ reqs.restores = 0
   /\ reqs.reverts = 1)
     => \A p \in 1..NImages :
           /\ Cardinality(MediaOf(p)) =
                 Cardinality({i \in 1..NImages : ProductOf(i) = p})
           /\ \A m \in MediaOf(p) : m.src[1] = "orig" \/ BackupOfOriginal(m.src)

\* C39: a cancel request of shop A never changes the cancelled flag or the
\* status of a job of another shop, whatever jobId it carries; without a jobId
\* it changes only the most recently created running job of shop A, and
\* nothing when shop A has none
CancelTenantIsolation ==
  [][(event'.op = "conc_cancel")
        => \A j \in 1..Len(jobRows) :
              (jobRows'[j].cancelled # jobRows[j].cancelled
                  \/ jobRows'[j].status # jobRows[j].status)
                 => jobRows[j].shop = event'.shop]_vars

\* the images that the run has been through: a returned run set the record
\* of each to `processing`, but for those it skipped as `completed`
Passed == {loc.items[k].m.id : k \in 1..(loc.idx - 1)}

\* C40: when a run of the orchestrator has returned (job `completed` or
\* `cancelled`), no ledger record that the run set to `processing` still has
\* status `processing`: each is `completed` or `failed`
NoRecordInFlight ==
  (Returned /\ event.op = "return")
     => /\ jobs[loc.job].status \in Terminal
        /\ \A id \in Passed :
              id \in DOMAIN ledger /\ ledger[id].status \in {"completed", "failed"}

NoRecordInFlightWitness ==
  /\ Returned
  /\ event.op = "return"
  /\ Cardinality(Passed) = 2
  /\ \E id \in Passed : ledger[id].status = "failed"
  /\ \E id \in Passed : ledger[id].status = "completed" /\ id \in hist.counted
====
